---- MODULE Spec2Model ----
(***************************************************************************)
(* LIR function inliner (Jit/codegen/inliner.cpp): legality check, callee  *)
(* cache, call-site splice, argument binding and return merging.           *)
(*                                                                         *)
(* A Function is a sequence of basic blocks in stored order.  A block is   *)
(* [id, preds, succs, instrs]; preds/succs are sequences of block ids.     *)
(* An instruction is [id, op, in, out]; instruction ids stand for the      *)
(* Instruction* pointers, so a linked operand names its defining           *)
(* instruction by id.  An operand is the flat record [k, v, base, index]:  *)
(*   k = "imm"    v = the constant (64-bit, kept as a signed integer)      *)
(*   k = "linked" v = id of the defining instruction                       *)
(*   k = "label"  v = id of the basic block                                *)
(*   k = "ind"    base/index = id of the instruction a linked base/index   *)
(*                register refers to, 0 when not linked or absent          *)
(*   k = "vreg", "reg", "none": no payload                                 *)
(***************************************************************************)
EXTENDS Integers, Sequences, FiniteSets, TLC

VARIABLES caller, call_instr_, arguments_, callee_start_, callee_end_,
          name_to_function, result, pre, last, stages

vars == <<caller, call_instr_, arguments_, callee_start_, callee_end_,
          name_to_function, result, pre, last, stages>>

-----------------------------------------------------------------------------
(* Operands and instructions *)

Opnd(k, v, base, index) == [k |-> k, v |-> v, base |-> base, index |-> index]

NoOpnd == Opnd("none", 0, 0, 0)

Imm(c) == Opnd("imm", c, 0, 0)

Linked(id) == Opnd("linked", id, 0, 0)

VReg == Opnd("vreg", 0, 0, 0)

PhyReg == Opnd("reg", 0, 0, 0)

Ind(base, index) == Opnd("ind", 0, base, index)

Label(bb) == Opnd("label", bb, 0, 0)

Instr(id, op, in, out) == [id |-> id, op |-> op, in |-> in, out |-> out]

Block(id, preds, succs, instrs) ==
  [id |-> id, preds |-> preds, succs |-> succs, instrs |-> instrs]

RECURSIVE Flatten(_)
Flatten(ss) == IF ss = <<>> THEN <<>> ELSE Head(ss) \o Flatten(Tail(ss))

\* every instruction of a function, blocks in stored order
AllInstrs(fn) == Flatten([i \in 1..Len(fn) |-> fn[i].instrs])

Range(s) == {s[i] : i \in 1..Len(s)}

InstrIds(fn) == {i.id : i \in Range(AllInstrs(fn))}

BlockIds(fn) == {fn[i].id : i \in 1..Len(fn)}

GetInstr(fn, id) == CHOOSE i \in Range(AllInstrs(fn)) : i.id = id

\* position (1-based) of the block that holds instruction id
BlockIndexOf(fn, id) ==
  CHOOSE b \in 1..Len(fn) : \E j \in 1..Len(fn[b].instrs) : fn[b].instrs[j].id = id

BlockIndexById(fn, bid) == CHOOSE b \in 1..Len(fn) : fn[b].id = bid

\* OperandBase::type(): a linked operand has the type of the output it links to
Type(fn, o) ==
  IF o.k = "linked"
    THEN IF o.v \in InstrIds(fn) THEN GetInstr(fn, o.v).out.k ELSE "none"
    ELSE o.k

isImm(fn, o) == Type(fn, o) = "imm"

isVreg(fn, o) == Type(fn, o) = "vreg"

isLinked(o) == o.k = "linked"

isInd(o) == o.k = "ind"

isLoadArg(i) == i.op = "LoadArg"

isReturn(i) == i.op = "Return"

\* unsigned 64-bit a < b on values kept as signed integers
ULess(a, b) == IF (a >= 0) = (b >= 0) THEN a < b ELSE b < 0

-----------------------------------------------------------------------------
(* Legality checker *)

\* checkEntryExitReturn taking for entry the block without predecessors and
\* for exit the block without successors, wherever they are stored
checkEntryExitReturn_AnyOrder(callee) ==
  IF Len(callee) = 0 THEN FALSE
  ELSE IF {b \in 1..Len(callee) : callee[b].preds = <<>>} = {} THEN FALSE
  ELSE IF {b \in 1..Len(callee) : callee[b].succs = <<>>} = {} THEN FALSE
  ELSE
    LET entry == CHOOSE b \in 1..Len(callee) : callee[b].preds = <<>>
        exit  == CHOOSE b \in 1..Len(callee) : callee[b].succs = <<>>
        blockOk(b) ==
          LET bb == callee[b] IN
            /\ ~(bb.preds = <<>> /\ b # entry)
            /\ ~(bb.succs = <<>> /\ b # exit)
            /\ \A j \in 1..Len(bb.instrs) :
                 isReturn(bb.instrs[j]) =>
                   ~(\/ j # Len(bb.instrs)
                     \/ Len(bb.succs) # 1
                     \/ bb.succs[1] # callee[exit].id)
    IN IF ~(\A b \in 1..Len(callee) : blockOk(b)) THEN FALSE
       ELSE IF callee[exit].instrs # <<>> THEN FALSE
       ELSE TRUE

\* checkEntryExitReturn without its last test, the one on the exit block's
\* instructions
checkEntryExitReturn_NoExitCheck(callee) ==
  IF Len(callee) = 0 THEN FALSE
  ELSE
    LET exit_block == callee[Len(callee)]
        blockOk(b) ==
          LET bb == callee[b] IN
            /\ ~(bb.preds = <<>> /\ b # 1)
            /\ ~(bb.succs = <<>> /\ b # Len(callee))
            /\ \A j \in 1..Len(bb.instrs) :
                 isReturn(bb.instrs[j]) =>
                   ~(\/ j # Len(bb.instrs)
                     \/ Len(bb.succs) # 1
                     \/ bb.succs[1] # exit_block.id)
    IN IF callee[1].preds # <<>> THEN FALSE
       ELSE IF exit_block.succs # <<>> THEN FALSE
       ELSE \A b \in 1..Len(callee) : blockOk(b)

checkEntryExitReturn(callee) ==
  IF Len(callee) = 0 THEN FALSE
  ELSE
    LET entry_block == callee[1]
        exit_block  == callee[Len(callee)]
        blockOk(b) ==
          LET bb == callee[b] IN
            /\ ~(bb.preds = <<>> /\ b # 1)
            /\ ~(bb.succs = <<>> /\ b # Len(callee))
            /\ \A j \in 1..Len(bb.instrs) :
                 isReturn(bb.instrs[j]) =>
                   ~(\/ j # Len(bb.instrs)
                     \/ Len(bb.succs) # 1
                     \/ bb.succs[1] # exit_block.id)
    IN IF entry_block.preds # <<>> THEN FALSE
       ELSE IF exit_block.succs # <<>> THEN FALSE
       ELSE IF ~(\A b \in 1..Len(callee) : blockOk(b)) THEN FALSE
       ELSE IF exit_block.instrs # <<>> THEN FALSE
       ELSE TRUE

\* The loop of checkArguments from input i on: [ok, args], args being the
\* operands emplaced into arguments_ before it returned.
RECURSIVE checkArgumentsFrom(_, _, _, _)
checkArgumentsFrom(fn, inputs, i, acc) ==
  IF i > Len(inputs) THEN [ok |-> TRUE, args |-> acc]
  ELSE IF ~isImm(fn, inputs[i]) /\ ~isVreg(fn, inputs[i])
    THEN [ok |-> FALSE, args |-> acc]
  ELSE checkArgumentsFrom(fn, inputs, i + 1, Append(acc, inputs[i]))

\* inputs[1] is the callee address: the loop starts at the second input
checkArguments(fn, inputs, args) == checkArgumentsFrom(fn, inputs, 2, args)

\* the scan of checkLoadArg over the instructions in stored order
RECURSIVE checkLoadArgFrom(_, _, _, _, _)
checkLoadArgFrom(callee, flat, i, numInputs, check_load_arg) ==
  IF i > Len(flat) THEN TRUE
  ELSE IF check_load_arg
    THEN IF isLoadArg(flat[i])
           THEN IF Len(flat[i].in) < 1 THEN FALSE
                ELSE IF ~isImm(callee, flat[i].in[1]) THEN FALSE
                ELSE IF ~ULess(flat[i].in[1].v, numInputs) THEN FALSE
                ELSE checkLoadArgFrom(callee, flat, i + 1, numInputs, TRUE)
           ELSE checkLoadArgFrom(callee, flat, i + 1, numInputs, FALSE)
    ELSE IF isLoadArg(flat[i]) THEN FALSE
         ELSE checkLoadArgFrom(callee, flat, i + 1, numInputs, FALSE)

\* checkLoadArg counting the callee address among the arguments
checkLoadArg_OffByOne(callee, inputs) ==
  checkLoadArgFrom(callee, AllInstrs(callee), 1, Len(inputs), TRUE)

\* numInputs is size_t getNumInputs() - 1: with no input at all it wraps to
\* 2^64 - 1, which the signed representation keeps as -1
checkLoadArg(callee, inputs) ==
  checkLoadArgFrom(callee, AllInstrs(callee), 1, Len(inputs) - 1, TRUE)

\* isInlineable without the check of the parameter-loads
isInlineableArgs_SkipsLoadArgCheck(callee, inputs, ca) == ca

\* isInlineable bounding the parameter-load indexes by the size of arguments_
isInlineableArgs_CountsArguments(callee, inputs, ca) ==
  IF ~ca.ok THEN ca
  ELSE IF ~checkLoadArgFrom(callee, AllInstrs(callee), 1, Len(ca.args), TRUE)
    THEN [ok |-> FALSE, args |-> ca.args]
  ELSE [ok |-> TRUE, args |-> ca.args]

\* isInlineable once checkEntryExitReturn has passed, ca being what
\* checkArguments returned
isInlineableArgs(callee, inputs, ca) ==
  IF ~ca.ok THEN ca
  ELSE IF ~checkLoadArg(callee, inputs) THEN [ok |-> FALSE, args |-> ca.args]
  ELSE [ok |-> TRUE, args |-> ca.args]

\* [ok, args]: the verdict and arguments_ afterwards
isInlineable(fn, inputs, args, callee) ==
  IF ~checkEntryExitReturn(callee) THEN [ok |-> FALSE, args |-> args]
  ELSE isInlineableArgs(callee, inputs, checkArguments(fn, inputs, args))

-----------------------------------------------------------------------------
(* Callee resolver *)

Names == {"f", "g"}

NoFunction == [has |-> FALSE, fn |-> <<>>]

SomeFunction(fn) == [has |-> TRUE, fn |-> fn]

\* dladdr(): the symbol an address belongs to, "" when it has none
dladdr(addr) == IF addr = 1 THEN "f" ELSE IF addr = 2 THEN "g" ELSE ""

\* parseFunction handing the Function of a hit out of the map
parseFunction_ReleasesEntry(cache, name, file) ==
  IF cache[name].has
    THEN [callee |-> cache[name], cache |-> [cache EXCEPT ![name] = NoFunction]]
  ELSE IF ~file.has THEN [callee |-> NoFunction, cache |-> cache]
  ELSE [callee |-> SomeFunction(file.fn),
        cache  |-> [cache EXCEPT ![name] = SomeFunction(file.fn)]]

\* file is what Jit/lir/c_helper_translations/<name>.lir holds at the time of
\* the call: NoFunction when it cannot be opened, else the parsed Function.
\* [callee, cache]: the Function returned (NoFunction for nullptr) and the map.
parseFunction(cache, name, file) ==
  IF cache[name].has THEN [callee |-> cache[name], cache |-> cache]
  ELSE IF ~file.has THEN [callee |-> NoFunction, cache |-> cache]
  ELSE [callee |-> SomeFunction(file.fn),
        cache  |-> [cache EXCEPT ![name] = SomeFunction(file.fn)]]

findFunction(fn, inputs, cache, file) ==
  IF Len(inputs) < 1 THEN [callee |-> NoFunction, cache |-> cache]
  ELSE IF ~isImm(fn, inputs[1]) THEN [callee |-> NoFunction, cache |-> cache]
  ELSE IF dladdr(inputs[1].v) = "" THEN [callee |-> NoFunction, cache |-> cache]
  ELSE parseFunction(cache, dladdr(inputs[1].v), file)

-----------------------------------------------------------------------------
(* Call-site splicer: BasicBlock::splitBefore and Function::copyFrom *)

RECURSIVE SortedSeq(_)
SortedSeq(S) ==
  IF S = {} THEN <<>>
  ELSE LET m == CHOOSE x \in S : \A y \in S : x <= y IN <<m>> \o SortedSeq(S \ {m})

MaxOf(S) == IF S = {} THEN 0 ELSE CHOOSE m \in S : \A x \in S : x <= m

SubSeqFrom(s, i) == SubSeq(s, i, Len(s))

OperandsOf(i) == Range(i.in) \cup {i.out}

\* every instruction id in use: the instructions and whatever operands name
UsedInstrIds(fn) ==
  InstrIds(fn)
    \cup {o.v : o \in {x \in UNION {OperandsOf(i) : i \in Range(AllInstrs(fn))} : x.k = "linked"}}
    \cup {o.base : o \in {x \in UNION {OperandsOf(i) : i \in Range(AllInstrs(fn))} : x.k = "ind"}}
    \cup {o.index : o \in {x \in UNION {OperandsOf(i) : i \in Range(AllInstrs(fn))} : x.k = "ind"}}

ReplaceIn(s, old, new) == [i \in 1..Len(s) |-> IF s[i] = old THEN new ELSE s[i]]

InsertAfter(s, i, xs) == SubSeq(s, 1, i) \o xs \o SubSeqFrom(s, i + 1)

\* block b (1-based position) is cut before instruction id: the instructions
\* before it stay, a new block right after b takes the rest and b's successors
splitBefore(fn, b, id) ==
  LET block1 == fn[b]
      k      == CHOOSE j \in 1..Len(block1.instrs) : block1.instrs[j].id = id
      newid  == MaxOf(BlockIds(fn)) + 1
      block2 == Block(newid, <<block1.id>>, block1.succs, SubSeqFrom(block1.instrs, k))
      fix(bb) == IF bb.id \in Range(block1.succs)
                   THEN [bb EXCEPT !.preds = ReplaceIn(bb.preds, block1.id, newid)]
                   ELSE bb
      fixed  == [i \in 1..Len(fn) |-> fix(fn[i])]
      first  == [fixed[b] EXCEPT !.instrs = SubSeq(block1.instrs, 1, k - 1),
                                 !.succs = <<newid>>]
  IN InsertAfter([fixed EXCEPT ![b] = first], b, <<block2>>)

CopyOperand(o, di, db) ==
  IF o.k = "linked" THEN Linked(o.v + di)
  ELSE IF o.k = "label" THEN Label(o.v + db)
  ELSE IF o.k = "ind"
    THEN Ind(IF o.base > 0 THEN o.base + di ELSE o.base,
             IF o.index > 0 THEN o.index + di ELSE o.index)
  ELSE o

CopyInstr(i, di, db) ==
  Instr(i.id + di, i.op, [j \in 1..Len(i.in) |-> CopyOperand(i.in[j], di, db)],
        CopyOperand(i.out, di, db))

CopyBlock(bb, di, db) ==
  Block(bb.id + db,
        [j \in 1..Len(bb.preds) |-> bb.preds[j] + db],
        [j \in 1..Len(bb.succs) |-> bb.succs[j] + db],
        [j \in 1..Len(bb.instrs) |-> CopyInstr(bb.instrs[j], di, db)])

\* copies are the callee's blocks copied; they go between block b1 (position)
\* and the block after it, b1 leads to the first and the last leads on
WireCopies(fn, b1, n, copies) ==
  [i \in 1..(Len(fn) + n) |->
     IF i < b1 THEN fn[i]
     ELSE IF i = b1 THEN [fn[i] EXCEPT !.succs = <<copies[1].id>>]
     ELSE IF i = b1 + n + 1
       THEN [fn[b1 + 1] EXCEPT !.preds = ReplaceIn(@, fn[b1].id, copies[n].id)]
     ELSE IF i > b1 + n + 1 THEN fn[i - n]
     ELSE [copies[i - b1] EXCEPT
             !.preds = IF i = b1 + 1 THEN Append(@, fn[b1].id) ELSE @,
             !.succs = IF i = b1 + n THEN Append(@, fn[b1 + 1].id) ELSE @]]

CopyBlocks(callee, di, db) == [i \in 1..Len(callee) |-> CopyBlock(callee[i], di, db)]

\* A deep copy of callee's blocks, in order, between block b1 (position) and
\* the block after it; [fn, begin_bb, end_bb] with 0-based block indexes.
copyFrom(fn, callee, b1) ==
  [fn |-> WireCopies(fn, b1, Len(callee),
                     CopyBlocks(callee, MaxOf(UsedInstrIds(fn)), MaxOf(BlockIds(fn)))),
   begin_bb |-> b1, end_bb |-> b1 + Len(callee)]

-----------------------------------------------------------------------------
(* Argument resolver *)

\* what a pointer obtained by casting a non-linked operand to LinkedOperand
\* leads to: no instruction of any function
Wild == -1

RemoveAt(s, j) == SubSeq(s, 1, j - 1) \o SubSeqFrom(s, j + 1)

\* setLinkedOperand on a linked operand id: its new target
Retarget(vreg_map, id) == IF id \in DOMAIN vreg_map THEN vreg_map[id] ELSE id

\* resolveLinkedArgumentsUses on one input operand
ResolveInput(vreg_map, o) ==
  IF isLinked(o) THEN Linked(Retarget(vreg_map, o.v))
  ELSE IF isInd(o)
    THEN Ind(IF o.base > 0 THEN Retarget(vreg_map, o.base) ELSE o.base,
             IF o.index > 0 THEN Retarget(vreg_map, o.index) ELSE o.index)
  ELSE o

resolveLinkedArgumentsUses(vreg_map, instr) ==
  [instr EXCEPT !.in = [i \in 1..Len(instr.in) |-> ResolveInput(vreg_map, instr.in[i])]]

\* resolveLoadArg replacing the input of an immediate argument but leaving
\* the opcode
resolveLoadArg_KeepsOpcode(fn, vreg_map, instr, args, ub) ==
  IF ~(Len(instr.in) > 0 /\ isImm(fn, instr.in[1]))
    THEN [what |-> "abort", instr |-> instr, vreg_map |-> vreg_map]
  ELSE IF ~(instr.in[1].v >= 0 /\ instr.in[1].v < Len(args))
    THEN [what |-> "abort", instr |-> instr, vreg_map |-> vreg_map]
  ELSE IF isImm(fn, args[instr.in[1].v + 1])
    THEN [what |-> "move",
          instr |-> [instr EXCEPT !.in[1] = Imm(args[instr.in[1].v + 1].v)],
          vreg_map |-> vreg_map]
  ELSE IF isLinked(args[instr.in[1].v + 1])
    THEN [what |-> "erase", instr |-> instr,
          vreg_map |-> vreg_map @@ (instr.id :> args[instr.in[1].v + 1].v)]
  ELSE IF ub = "abort"
    THEN [what |-> "abort", instr |-> instr, vreg_map |-> vreg_map]
  ELSE [what |-> "erase", instr |-> instr,
        vreg_map |-> vreg_map @@ (instr.id :> Wild)]

\* resolveLoadArg on the LoadArg instr; what: "move" (kept, converted),
\* "erase" (deleted, vreg_map extended) or "abort" (an assertion failed or
\* arguments_.at() threw).  ub is what the build does with a virtual-register
\* argument that is not a linked operand: "abort" (JIT_DCHECK compiled in) or
\* "wild" (the static_cast to LinkedOperand is taken as it is).
resolveLoadArg(fn, vreg_map, instr, args, ub) ==
  IF ~(Len(instr.in) > 0 /\ isImm(fn, instr.in[1]))
    THEN [what |-> "abort", instr |-> instr, vreg_map |-> vreg_map]
  ELSE IF ~(instr.in[1].v >= 0 /\ instr.in[1].v < Len(args))
    THEN [what |-> "abort", instr |-> instr, vreg_map |-> vreg_map]
  ELSE
    LET param == args[instr.in[1].v + 1] IN
      IF isImm(fn, param)
        THEN [what |-> "move",
              instr |-> [instr EXCEPT !.op = "Move", !.in[1] = Imm(param.v)],
              vreg_map |-> vreg_map]
      ELSE IF isLinked(param)
        THEN [what |-> "erase", instr |-> instr,
              vreg_map |-> vreg_map @@ (instr.id :> param.v)]
      ELSE IF ub = "abort"
        THEN [what |-> "abort", instr |-> instr, vreg_map |-> vreg_map]
      ELSE [what |-> "erase", instr |-> instr,
            vreg_map |-> vreg_map @@ (instr.id :> Wild)]

\* the scan of resolveArguments from block index i (0-based), instruction j
RECURSIVE resolveArgumentsFrom(_, _, _, _, _, _, _)
resolveArgumentsFrom(fn, i, j, end, vreg_map, args, ub) ==
  IF i >= end THEN [fn |-> fn, abort |-> FALSE]
  ELSE IF j > Len(fn[i + 1].instrs)
    THEN resolveArgumentsFrom(fn, i + 1, 1, end, vreg_map, args, ub)
  ELSE IF isLoadArg(fn[i + 1].instrs[j])
    THEN LET r == resolveLoadArg(fn, vreg_map, fn[i + 1].instrs[j], args, ub) IN
      IF r.what = "abort" THEN [fn |-> fn, abort |-> TRUE]
      ELSE IF r.what = "move"
        THEN resolveArgumentsFrom([fn EXCEPT ![i + 1].instrs[j] = r.instr],
                                  i, j + 1, end, r.vreg_map, args, ub)
      ELSE resolveArgumentsFrom([fn EXCEPT ![i + 1].instrs = RemoveAt(@, j)],
                                i, j, end, r.vreg_map, args, ub)
  ELSE resolveArgumentsFrom(
         [fn EXCEPT ![i + 1].instrs[j] = resolveLinkedArgumentsUses(vreg_map, @)],
         i, j + 1, end, vreg_map, args, ub)

resolveArguments(fn, start, end, args, ub) ==
  resolveArgumentsFrom(fn, start, 1, end, << >>, args, ub)

-----------------------------------------------------------------------------
(* Return-value merger *)

getLastInstr(bb) == bb.instrs[Len(bb.instrs)]

\* the loop over the epilogue's predecessors from the k-th on; e is the
\* epilogue's position, its last instruction the phi
RECURSIVE mergeReturnsFrom(_, _, _, _)
mergeReturnsFrom(fn, e, preds, k) ==
  IF k > Len(preds) THEN [fn |-> fn, abort |-> FALSE]
  ELSE
    LET p    == BlockIndexById(fn, preds[k])
        pred == fn[p]
        phi  == Len(fn[e].instrs)
    IN IF pred.instrs # <<>> /\ isReturn(getLastInstr(pred))
         THEN LET labelled == [fn EXCEPT ![e].instrs[phi].in = Append(@, Label(pred.id))]
              IN IF ~(Len(getLastInstr(pred).in) > 0)
                   THEN [fn |-> labelled, abort |-> TRUE]
                   ELSE mergeReturnsFrom(
                          [labelled EXCEPT
                             ![e].instrs[phi].in = Append(@, getLastInstr(pred).in[1]),
                             ![p].instrs = RemoveAt(@, Len(pred.instrs))],
                          e, preds, k + 1)
         ELSE mergeReturnsFrom(fn, e, preds, k + 1)

SetInstr(fn, id, op, in) ==
  [b \in 1..Len(fn) |->
     [fn[b] EXCEPT !.instrs =
        [j \in 1..Len(fn[b].instrs) |->
           IF fn[b].instrs[j].id = id
             THEN [fn[b].instrs[j] EXCEPT !.op = op, !.in = in]
             ELSE fn[b].instrs[j]]]]

\* the end of resolveReturnValue adding the link to the phi without removing
\* the inputs of the call
finishReturnValue_KeepsInputs(merged, e, call, inputs, phi_id) ==
  IF merged.abort THEN merged
  ELSE IF Len(getLastInstr(merged.fn[e]).in) = 0
    THEN [fn |-> SetInstr([merged.fn EXCEPT ![e].instrs = RemoveAt(@, Len(@))],
                          call, "Nop", inputs),
          abort |-> FALSE]
  ELSE [fn |-> SetInstr(merged.fn, call, "Move", Append(inputs, Linked(phi_id))),
        abort |-> FALSE]

\* the end of resolveReturnValue: merged is the caller after the loop, e the
\* epilogue's position, inputs the inputs of the call instruction
finishReturnValue(merged, e, call, inputs, phi_id) ==
  IF merged.abort THEN merged
  ELSE IF Len(getLastInstr(merged.fn[e]).in) = 0
    THEN [fn |-> SetInstr([merged.fn EXCEPT ![e].instrs = RemoveAt(@, Len(@))],
                          call, "Nop", inputs),
          abort |-> FALSE]
  ELSE [fn |-> SetInstr(merged.fn, call, "Move", <<Linked(phi_id)>>),
        abort |-> FALSE]

\* resolveReturnValue visiting the predecessors by block id, not as stored
resolveReturnValuePhi_BlockOrder(fn, end, call, phi_id) ==
  finishReturnValue(
    mergeReturnsFrom([fn EXCEPT ![end].instrs = Append(@, Instr(phi_id, "Phi", <<>>, VReg))],
                     end, SortedSeq(Range(fn[end].preds)), 1),
    end, call, GetInstr(fn, call).in, phi_id)

\* end is callee_end_, call the id of call_instr_, phi_id the new instruction
resolveReturnValuePhi(fn, end, call, phi_id) ==
  finishReturnValue(
    mergeReturnsFrom([fn EXCEPT ![end].instrs = Append(@, Instr(phi_id, "Phi", <<>>, VReg))],
                     end, fn[end].preds, 1),
    end, call, GetInstr(fn, call).in, phi_id)

resolveReturnValue(fn, end, call) ==
  resolveReturnValuePhi(fn, end, call, MaxOf(UsedInstrIds(fn)) + 1)

-----------------------------------------------------------------------------
(* The pass *)

\* What an inlineCall leaves.  ret is "true", "false" or "abort" (the process
\* died inside the pass); ok is isInlineable's verdict, done the stages run.
Outcome(ret, fn, args, found, start, end, ok, done) ==
  [ret |-> ret, fn |-> fn, args |-> args, cache |-> found.cache, start |-> start,
   end |-> end, callee |-> found.callee, ok |-> ok, done |-> done]

inlineMerged(found, chk, copied, merged) ==
  Outcome(IF merged.abort THEN "abort" ELSE "true", merged.fn, chk.args, found,
          copied.begin_bb, copied.end_bb, TRUE,
          IF merged.abort THEN <<"split", "copy", "arguments">>
          ELSE <<"split", "copy", "arguments", "return">>)

inlineBound(call, found, chk, copied, bound) ==
  IF bound.abort
    THEN Outcome("abort", bound.fn, chk.args, found, copied.begin_bb, copied.end_bb,
                 TRUE, <<"split", "copy">>)
    ELSE inlineMerged(found, chk, copied,
                      resolveReturnValue(bound.fn, copied.end_bb, call))

inlineCopied(call, ub, found, chk, copied) ==
  inlineBound(call, found, chk, copied,
              resolveArguments(copied.fn, copied.begin_bb, copied.end_bb, chk.args, ub))

\* inlineCall splitting the block before it knows the verdict
inlineChecked_SplitsFirst(fn, call, start, end, ub, found, chk) ==
  IF ~chk.ok
    THEN Outcome("false", splitBefore(fn, BlockIndexOf(fn, call), call), chk.args,
                 found, start, end, FALSE, <<>>)
  ELSE inlineCopied(call, ub, found, chk,
                    copyFrom(splitBefore(fn, BlockIndexOf(fn, call), call),
                             found.callee.fn, BlockIndexOf(fn, call)))

\* inlineCall copying the callee in without splitting the block of the call
inlineChecked_CopiesWithoutSplit(fn, call, start, end, ub, found, chk) ==
  IF ~chk.ok THEN Outcome("false", fn, chk.args, found, start, end, FALSE, <<>>)
  ELSE inlineCopied(call, ub, found, chk,
                    copyFrom(fn, found.callee.fn, BlockIndexOf(fn, call)))

inlineChecked(fn, call, start, end, ub, found, chk) ==
  IF ~chk.ok THEN Outcome("false", fn, chk.args, found, start, end, FALSE, <<>>)
  ELSE inlineCopied(call, ub, found, chk,
                    copyFrom(splitBefore(fn, BlockIndexOf(fn, call), call),
                             found.callee.fn, BlockIndexOf(fn, call)))

inlineFound(fn, call, args, start, end, ub, found) ==
  IF ~found.callee.has THEN Outcome("false", fn, args, found, start, end, FALSE, <<>>)
  ELSE inlineChecked(fn, call, start, end, ub, found,
                     isInlineable(fn, GetInstr(fn, call).in, args, found.callee.fn))

\* inlineCall on call_instr_ = call: the stages in the order of the code
inlineCall(fn, call, args, cache, start, end, file, ub) ==
  inlineFound(fn, call, args, start, end, ub,
              findFunction(fn, GetInstr(fn, call).in, cache, file))

-----------------------------------------------------------------------------
(* Inputs: callers, call sites and the callee files *)

\* most actual arguments of a call in a caller
MaxArgs == 2

\* arguments_ is never cleared: no operation starts once it is longer
MaxArguments == 2

BoundedSeq(S, n) == UNION {[1..k -> S] : k \in 0..n}

\* actual arguments of the first call: immediates and links to the virtual
\* register instruction 2 defines, then possibly a virtual register that is
\* not linked or a memory operand
ArgLists ==
  BoundedSeq({Imm(7), Linked(2)}, MaxArgs)
    \cup {Append(a, x) : a \in BoundedSeq({Imm(7), Linked(2)}, MaxArgs - 1),
                         x \in {VReg, Ind(2, 0)}}

\* its inputs: none, an address that is not an immediate, one without a
\* symbol, the address of "g", or the address of "f" and arguments
CallInputs ==
  {<<>>, <<Linked(2)>>, <<Imm(3)>>, <<Imm(2)>>} \cup {<<Imm(1)>> \o a : a \in ArgLists}

\* two blocks; the first holds two calls, the second returns
Caller(x) ==
  << Block(1, <<>>, <<2>>,
           << Instr(1, "Move", <<Imm(3)>>, PhyReg),
              Instr(2, "Move", <<Imm(4)>>, VReg),
              Instr(3, "Call", x, VReg),
              Instr(4, "Call", <<Imm(2), Linked(2)>>, VReg),
              Instr(5, "Add", <<Linked(3), Linked(4)>>, VReg) >>),
     Block(2, <<1>>, <<>>, << Instr(6, "Return", <<Linked(5)>>, NoOpnd) >>) >>

Callers == {Caller(x) : x \in CallInputs}

LoadArg(id, idx) == Instr(id, "LoadArg", <<Imm(idx)>>, VReg)

Linear2(es) == << Block(1, <<>>, <<2>>, es), Block(2, <<1>>, <<>>, <<>>) >>

Diamond(es, ls, rs, preds) ==
  << Block(1, <<>>, <<2, 3>>, es), Block(2, <<1>>, <<4>>, ls),
     Block(3, <<1>>, <<4>>, rs), Block(4, preds, <<>>, <<>>) >>

\* one entry block that loads arguments, uses them and may return
BindingCallees ==
  {Linear2(p \o b \o r) :
     p \in {<<LoadArg(1, 0)>>, <<LoadArg(1, 0), LoadArg(2, 1)>>, <<LoadArg(1, 1)>>},
     b \in {<<>>,
            <<Instr(3, "Add", <<Linked(1), Imm(5)>>, VReg),
              Instr(4, "Load", <<Ind(1, 1)>>, VReg)>>,
            <<Instr(3, "Move", <<Imm(1)>>, Ind(1, 0))>>},
     r \in {<<>>, <<Instr(5, "Return", <<Linked(1)>>, NoOpnd)>>}}

\* two paths into the exit block, each returning or not
ReturnCallees ==
  {Diamond(<<>>, l, r, p) :
     l \in {<<>>,
            <<Instr(3, "Move", <<Imm(6)>>, VReg),
              Instr(5, "Return", <<Linked(3)>>, NoOpnd)>>},
     r \in {<<>>, <<Instr(6, "Return", <<Imm(9), Imm(0)>>, NoOpnd)>>,
            <<Instr(6, "Return", <<>>, NoOpnd)>>},
     p \in {<<2, 3>>, <<3, 2>>}}

\* shapes the legality check has to turn down, and the smallest it accepts
OddCallees ==
  { <<>>,
    << Block(1, <<>>, <<>>, <<>>) >>,
    << Block(1, <<>>, <<>>, <<Instr(3, "Move", <<Imm(1)>>, VReg)>>) >>,
    Linear2(<<Instr(3, "Move", <<Imm(1)>>, VReg), LoadArg(1, 0)>>),
    Linear2(<<Instr(5, "Return", <<Imm(1)>>, NoOpnd),
              Instr(3, "Move", <<Imm(1)>>, VReg)>>),
    Linear2(<<Instr(1, "LoadArg", <<>>, VReg)>>),
    << Block(1, <<>>, <<2>>, <<>>), Block(2, <<1>>, <<>>, <<>>),
       Block(3, <<>>, <<>>, <<>>) >> }

\* one block without predecessors and one without successors, returns in
\* place, but the blocks stored in another order: exit first, entry second,
\* exit second
MisorderedCallees ==
  { << Block(2, <<1>>, <<>>, <<>>),
       Block(1, <<>>, <<2>>, <<Instr(5, "Return", <<Imm(8)>>, NoOpnd)>>) >>,
    << Block(2, <<1>>, <<3>>, <<Instr(5, "Return", <<Imm(8)>>, NoOpnd)>>),
       Block(1, <<>>, <<2>>, <<>>),
       Block(3, <<2>>, <<>>, <<>>) >>,
    << Block(1, <<>>, <<2>>, <<>>),
       Block(3, <<2>>, <<>>, <<>>),
       Block(2, <<1>>, <<3>>, <<Instr(5, "Return", <<Imm(8)>>, NoOpnd)>>) >> }

\* what the file of "f" may hold when it is read
FFiles ==
  {NoFunction}
    \cup {SomeFunction(c) :
            c \in BindingCallees \cup ReturnCallees \cup OddCallees \cup MisorderedCallees}

\* what the file of "g" may hold when it is read
GFiles ==
  {NoFunction, SomeFunction(<< Block(1, <<>>, <<>>, <<>>) >>),
   SomeFunction(Linear2(<<LoadArg(1, 0),
                          Instr(5, "Return", <<Linked(1)>>, NoOpnd)>>))}

Files(name) == IF name = "f" THEN FFiles ELSE GFiles

-----------------------------------------------------------------------------
(* The state machine: inliners are built on call instructions and run *)

CallIds(fn) == {i.id : i \in {x \in Range(AllInstrs(fn)) : x.op = "Call"}}

NoLast == [op |-> "none", callee |-> NoFunction, ok |-> FALSE, inputs |-> <<>>,
           args |-> <<>>, cache |-> [n \in Names |-> NoFunction]]

Init ==
  /\ caller \in Callers
  /\ call_instr_ = 0
  /\ arguments_ = <<>>
  /\ callee_start_ = -1
  /\ callee_end_ = -1
  /\ name_to_function = [n \in Names |-> NoFunction]
  /\ result = "none"
  /\ pre = caller
  /\ last = NoLast
  /\ stages = <<>>

\* LIRInliner(instr): a new inliner for a call instruction of the caller
Construct(c) ==
  /\ result # "abort"
  /\ c \in CallIds(caller)
  /\ call_instr_' = c
  /\ arguments_' = <<>>
  /\ callee_start_' = -1
  /\ callee_end_' = -1
  /\ result' = "none"
  /\ pre' = caller
  /\ last' = [NoLast EXCEPT !.op = "construct", !.cache = name_to_function]
  /\ stages' = <<>>
  /\ UNCHANGED <<caller, name_to_function>>

\* the files an inlineCall on call_instr_ may read: the one of the name its
\* address resolves to, unless the map has the name already
FilesRead ==
  LET inputs == GetInstr(caller, call_instr_).in IN
    IF Len(inputs) >= 1 /\ inputs[1].k = "imm" /\ dladdr(inputs[1].v) # ""
      THEN IF name_to_function[dladdr(inputs[1].v)].has THEN {NoFunction}
           ELSE Files(dladdr(inputs[1].v))
      ELSE {NoFunction}

\* the state r, what inlineCall returned, leaves
InlineCallDone(r) ==
  /\ caller' = r.fn
  /\ arguments_' = r.args
  /\ callee_start_' = r.start
  /\ callee_end_' = r.end
  /\ name_to_function' = r.cache
  /\ result' = r.ret
  /\ stages' = r.done
  /\ last' = [op |-> "inlineCall", callee |-> r.callee, ok |-> r.ok,
              inputs |-> GetInstr(caller, call_instr_).in,
              args |-> arguments_, cache |-> name_to_function]

\* inlineCall(); an inliner that has returned true is not run again
InlineCall(file, ub) ==
  /\ result \notin {"abort", "true"}
  /\ call_instr_ # 0
  /\ Len(arguments_) <= MaxArguments
  /\ InlineCallDone(inlineCall(caller, call_instr_, arguments_, name_to_function,
                               callee_start_, callee_end_, file, ub))
  /\ pre' = caller
  /\ UNCHANGED call_instr_

Next ==
  \/ \E c \in CallIds(caller) : Construct(c)
  \/ /\ call_instr_ # 0
     /\ \E file \in FilesRead, ub \in {"abort", "wild"} : InlineCall(file, ub)

Spec == Init /\ [][Next]_vars

-----------------------------------------------------------------------------
(* Vocabulary of the properties *)

\* the callee the last operation resolved or was given
Callee == last.callee.fn

\* the actual arguments of the call the last operation looked at
ActualArgs == IF last.inputs = <<>> THEN <<>> ELSE Tail(last.inputs)

TheCall == GetInstr(caller, call_instr_)

\* the transplanted range [callee_start_, callee_end_) and its instructions
RangeBlocks == {caller[b + 1] : b \in callee_start_..(callee_end_ - 1)}

RangeInstrs == UNION {Range(bb.instrs) : bb \in RangeBlocks}

\* the block at index callee_end_ - 1
Epilogue == caller[callee_end_]

Phis(bb) == {i \in Range(bb.instrs) : i.op = "Phi"}

ThePhi == CHOOSE p \in Phis(Epilogue) : TRUE

AllStages == <<"split", "copy", "arguments", "return">>

NoPreds(fn) == {b \in 1..Len(fn) : fn[b].preds = <<>>}

NoSuccs(fn) == {b \in 1..Len(fn) : fn[b].succs = <<>>}

\* the structural conditions on a callee, said without the order of the checks
StructureOk(fn) ==
  /\ Len(fn) >= 1
  /\ Cardinality(NoPreds(fn)) = 1
  /\ Cardinality(NoSuccs(fn)) = 1
  /\ \A b \in 1..Len(fn) : \A j \in 1..Len(fn[b].instrs) :
       isReturn(fn[b].instrs[j]) =>
         /\ j = Len(fn[b].instrs)
         /\ Len(fn[b].succs) = 1
         /\ \E x \in NoSuccs(fn) : fn[b].succs[1] = fn[x].id
  /\ \A x \in NoSuccs(fn) : fn[x].instrs = <<>>

\* every parameter-load is in the leading run of parameter-loads and has an
\* immediate index below n
LoadArgsOk(flat, n) ==
  \A i \in 1..Len(flat) :
    isLoadArg(flat[i]) =>
      /\ \A j \in 1..i : isLoadArg(flat[j])
      /\ Len(flat[i].in) >= 1
      /\ flat[i].in[1].k = "imm"
      /\ flat[i].in[1].v \in 0..(n - 1)

\* some parameter-load selects an argument that is neither an immediate nor
\* a linked operand
SelectsUnbindable(fn, actual) ==
  \E i \in Range(AllInstrs(fn)) :
    /\ isLoadArg(i)
    /\ Len(i.in) >= 1
    /\ i.in[1].v \in 0..(Len(actual) - 1)
    /\ actual[i.in[1].v + 1].k \notin {"imm", "linked"}

ReturnWithoutInput(fn) == \E i \in Range(AllInstrs(fn)) : isReturn(i) /\ i.in = <<>>

EndsInReturn(bb) == bb.instrs # <<>> /\ isReturn(bb.instrs[Len(bb.instrs)])

\* the blocks of a callee that precede its last block and end in a return
ReturningPreds(fn) ==
  {b \in 1..Len(fn) : fn[b].id \in Range(fn[Len(fn)].preds) /\ EndsInReturn(fn[b])}

\* the instruction ids an operand refers to
OperandRefs(o) ==
  IF o.k = "linked" THEN {o.v}
  ELSE IF o.k = "ind" THEN {o.base, o.index} \ {0}
  ELSE {}

-----------------------------------------------------------------------------
(* Properties of inlineCall, under Spec *)

\* C1: whenever inlineCall returns false, the caller's IR (block list and
\* order, predecessor and successor lists, instructions, opcodes, operands)
\* is exactly what it was before the call.
C1_FalseLeavesCallerUntouched ==
  (last.op = "inlineCall" /\ result = "false") => caller = pre

\* C1 witness: inlineCall returned false on a legality sub-check after the
\* callee was resolved and its structure accepted.
C1_Witness ==
  /\ last.op = "inlineCall"
  /\ result = "false"
  /\ last.callee.has
  /\ StructureOk(Callee)
  /\ Len(ActualArgs) >= 1

C3_NoLoadArgOrReturnInRange ==
  result = "true" => \A i \in RangeInstrs : ~isLoadArg(i) /\ ~isReturn(i)

\* C3 witness: the callee inlined had two parameter-loads and a return.
C3_Witness ==
  /\ result = "true"
  /\ Cardinality({i \in Range(AllInstrs(Callee)) : isLoadArg(i)}) = 2
  /\ \E i \in Range(AllInstrs(Callee)) : isReturn(i)

\* C4 as claimed: after argument binding no instruction of the transplanted
\* range refers, through an input, the base or index of a memory operand, or
\* its output operand, to an instruction that no longer exists (calls whose
\* selected arguments are all immediates or linked operands).
C4_NoReferenceToDeletedLoadArg ==
  (result = "true" /\ ~SelectsUnbindable(Callee, ActualArgs)) =>
    \A i \in RangeInstrs : \A o \in OperandsOf(i) : OperandRefs(o) \subseteq InstrIds(caller)

\* C5: after inlineCall returned true the call instruction is a no-op and the
\* epilogue has no phi when no predecessor of the epilogue ended in a return;
\* otherwise it is a move whose only input is a link to the phi in the epilogue.
C5_CallBecomesNopOrMove ==
  result = "true" =>
    IF ReturningPreds(Callee) = {}
      THEN TheCall.op = "Nop" /\ Phis(Epilogue) = {}
      ELSE /\ TheCall.op = "Move"
           /\ Cardinality(Phis(Epilogue)) = 1
           /\ TheCall.in = <<Linked(ThePhi.id)>>

\* C5 witness: a call with an address and two arguments became a move.
C5_Witness ==
  /\ result = "true"
  /\ TheCall.op = "Move"
  /\ Len(last.inputs) = 3

\* the predecessors of the epilogue, in stored order, that are copies of
\* callee blocks ending in a return; block ids are copied with one offset
IsReturningCopy(bid) ==
  \E b \in ReturningPreds(Callee) :
    bid = Callee[b].id + (Epilogue.id - Callee[Len(Callee)].id)

ReturningCopies == SelectSeq(Epilogue.preds, IsReturningCopy)

\* the first input of the return that ended the callee block copied as bid
ReturnedBy(bid) ==
  LET b == CHOOSE x \in ReturningPreds(Callee) :
             bid = Callee[x].id + (Epilogue.id - Callee[Len(Callee)].id)
  IN Callee[b].instrs[Len(Callee[b].instrs)].in[1]

\* C6: the phi has one (block, value) pair per predecessor of the epilogue
\* that ended in a return, in the epilogue's stored predecessor order, the
\* value being the first input of that return; the returns are gone and the
\* other predecessors contribute nothing.
C6_MergeInputsFollowPredecessorOrder ==
  (result = "true" /\ ReturningPreds(Callee) # {}) =>
    /\ Len(ThePhi.in) = 2 * Len(ReturningCopies)
    /\ \A k \in 1..Len(ReturningCopies) :
         /\ ThePhi.in[2 * k - 1] = Label(ReturningCopies[k])
         /\ ThePhi.in[2 * k].k = ReturnedBy(ReturningCopies[k]).k
         /\ ReturnedBy(ReturningCopies[k]).k = "imm" =>
              ThePhi.in[2 * k] = ReturnedBy(ReturningCopies[k])
         /\ ~EndsInReturn(caller[BlockIndexById(caller, ReturningCopies[k])])

\* C6 witness: two return paths merged, the stored predecessor order being
\* the reverse of the block order.
C6_Witness ==
  /\ result = "true"
  /\ Cardinality(ReturningPreds(Callee)) = 2
  /\ Len(ThePhi.in) = 4
  /\ Epilogue.preds[1] > Epilogue.preds[2]

\* C10: a Function the map holds is never changed, removed or replaced, and
\* an inlineCall that resolves a name the map holds gets that very Function.
C10_CachedFunctionNeverChanges ==
  [][\A n \in Names :
       name_to_function[n].has =>
         /\ name_to_function'[n] = name_to_function[n]
         /\ (/\ last'.op = "inlineCall"
             /\ last'.inputs # <<>>
             /\ last'.inputs[1].k = "imm"
             /\ dladdr(last'.inputs[1].v) = n) => last'.callee = name_to_function[n]]_vars

\* C10 witness: a call was inlined from a Function the map held before the
\* call, after an earlier inlineCall had put it there.
C10_Witness ==
  /\ last.op = "inlineCall"
  /\ result = "true"
  /\ last.inputs[1].k = "imm"
  /\ dladdr(last.inputs[1].v) = "g"
  /\ last.cache["g"].has
  /\ Len(caller) > 5

\* the position (1-based) of the block that held the call before inlineCall,
\* which is also the 0-based index of the block after it
BlockA == BlockIndexOf(pre, call_instr_)

\* the place of the call in that block
CallAt == CHOOSE j \in 1..Len(pre[BlockA].instrs) : pre[BlockA].instrs[j].id = call_instr_

\* the block at index callee_end_, right after the transplanted range
BlockB == caller[callee_end_ + 1]

\* what separates the id of a copied block from the id of its original
CopyOffset == caller[callee_start_ + 1].id - Callee[1].id

Shifted(ids, d) == [k \in 1..Len(ids) |-> ids[k] + d]

\* the block at index callee_start_ + j - 1 is the copy of the j-th block of
\* the callee: its edges are the callee's, among the copies, the first copy
\* entered from A and the last left for B; its instructions are copies of
\* that block's, or the phi
IsCopyOfCalleeBlock(j) ==
  /\ caller[callee_start_ + j].id = Callee[j].id + CopyOffset
  /\ caller[callee_start_ + j].preds =
       Shifted(Callee[j].preds, CopyOffset)
         \o (IF j = 1 THEN <<caller[BlockA].id>> ELSE <<>>)
  /\ caller[callee_start_ + j].succs =
       Shifted(Callee[j].succs, CopyOffset)
         \o (IF j = Len(Callee) THEN <<BlockB.id>> ELSE <<>>)
  /\ \A i \in Range(caller[callee_start_ + j].instrs) :
       i.op # "Phi" =>
         i.id - MaxOf(UsedInstrIds(pre)) \in {x.id : x \in Range(Callee[j].instrs)}

\* C11: after a successful inlineCall the instructions before the call are
\* the original block A, in order; the call followed by the instructions
\* after it are the new block B; A has one successor, the copy of the
\* callee's entry block at index callee_start_; the copy of the exit block at
\* index callee_end_ - 1 has one successor, B; [callee_start_, callee_end_)
\* holds one copy of each block of the callee, in stored order, with the
\* callee's edges among the copies.
C11_CallSiteSpliced ==
  result = "true" =>
    /\ Len(caller) = Len(pre) + Len(Callee) + 1
    /\ Cardinality(BlockIds(caller)) = Len(caller)
    /\ callee_start_ = BlockA
    /\ callee_end_ = callee_start_ + Len(Callee)
    /\ caller[BlockA].id = pre[BlockA].id
    /\ caller[BlockA].preds = pre[BlockA].preds
    /\ caller[BlockA].instrs = SubSeq(pre[BlockA].instrs, 1, CallAt - 1)
    /\ caller[BlockA].succs = <<caller[callee_start_ + 1].id>>
    /\ BlockB.id \notin BlockIds(pre)
    /\ BlockB.succs = pre[BlockA].succs
    /\ BlockB.preds = <<Epilogue.id>>
    /\ Head(BlockB.instrs).id = call_instr_
    /\ Tail(BlockB.instrs) = SubSeqFrom(pre[BlockA].instrs, CallAt + 1)
    /\ Epilogue.succs = <<BlockB.id>>
    /\ \A j \in 1..Len(Callee) : IsCopyOfCalleeBlock(j)

\* C11 witness: a callee of four blocks was spliced in place of a call that
\* had two instructions before it and two after it.
C11_Witness ==
  /\ result = "true"
  /\ Len(Callee) = 4
  /\ Len(caller[BlockA].instrs) = 2
  /\ Len(BlockB.instrs) = 3
  /\ Len(caller) = 7

\* C12 as claimed: every argument the legality check accepts is one the
\* binder can bind: for every accepted call the argument each parameter-load
\* selects is an immediate or a linked operand, and inlineCall never stops in
\* the binder, after the split and the copy.
C12_AcceptedArgumentsBindable ==
  (last.op = "inlineCall" /\ last.ok) =>
    /\ ~SelectsUnbindable(Callee, ActualArgs)
    /\ ~(result = "abort" /\ stages = <<"split", "copy">>)

\* the caller as resolveReturnValue finds it: split, the callee copied in,
\* the arguments bound
BeforeMerge ==
  resolveArguments(copyFrom(splitBefore(pre, BlockA, call_instr_), Callee, BlockA).fn,
                   callee_start_, callee_end_, arguments_, "wild").fn

\* in fn the block at index callee_end_ - 1 is the copy of the callee's last
\* block and holds nothing, and every return of the range ends a predecessor
\* of that block
EpilogueIsExitCopy(fn) ==
  /\ fn[callee_end_].id = Callee[Len(Callee)].id + CopyOffset
  /\ fn[callee_end_].instrs = <<>>
  /\ \A b \in (callee_start_ + 1)..callee_end_ : \A j \in 1..Len(fn[b].instrs) :
       isReturn(fn[b].instrs[j]) =>
         /\ j = Len(fn[b].instrs)
         /\ fn[b].id \in Range(fn[callee_end_].preds)

\* C13: isInlineable accepts a callee only if its block without predecessors
\* is the first in stored order and its block without successors the last;
\* so for every accepted callee the block at index callee_end_ - 1, which
\* the return merger takes for epilogue, is the copy of the exit sentinel, is
\* empty when the phi is added, and every return of the transplanted copy is
\* the last instruction of one of its predecessors.
C13_EpilogueIsExitSentinel ==
  (last.op = "inlineCall" /\ last.ok) =>
    /\ NoPreds(Callee) = {1}
    /\ NoSuccs(Callee) = {Len(Callee)}
    /\ Callee[Len(Callee)].instrs = <<>>
    /\ Len(stages) >= 3 => EpilogueIsExitCopy(BeforeMerge)

\* C13 witness: a callee of four blocks with a return on each of two paths
\* was accepted and its returns merged.
C13_Witness ==
  /\ last.op = "inlineCall"
  /\ last.ok
  /\ stages = AllStages
  /\ Len(Callee) = 4
  /\ Cardinality({b \in 1..4 : EndsInReturn(Callee[b])}) = 2
  /\ EpilogueIsExitCopy(BeforeMerge)

-----------------------------------------------------------------------------
(* The legality check on its own: isInlineable called, any number of times, *)
(* on an inliner built on the first call of a caller and a Function the     *)
(* map holds, over a wider family of callees                                *)

\* the blocks of a function from successor lists and instruction lists;
\* the predecessor lists are what addSuccessor leaves, blocks taken in order
FromEdges(succs, instrs) ==
  [b \in 1..Len(succs) |->
     Block(b, SortedSeq({a \in 1..Len(succs) : b \in Range(succs[a])}),
           succs[b], instrs[b])]

\* every way to give each of n blocks successors among the others
EdgeLists(n) == [1..n -> {SortedSeq(T) : T \in SUBSET (1..n)}]

\* what a block holds in the callees that probe the shape of the graph
ShapeInstrs ==
  {<<>>, <<Instr(3, "Move", <<Imm(6)>>, VReg)>>,
   <<Instr(5, "Return", <<Imm(8)>>, NoOpnd)>>,
   <<Instr(5, "Return", <<Imm(8)>>, NoOpnd), Instr(3, "Move", <<Imm(6)>>, VReg)>>}

BlockCounts == 0..3

ShapeCallees ==
  UNION {{FromEdges(e, i) :
            e \in {x \in EdgeLists(n) : \A b \in 1..n : b \notin Range(x[b])},
            i \in [1..n -> ShapeInstrs]} : n \in BlockCounts}

\* the instructions of the callees that probe the parameter-loads
ArgInstrs ==
  {LoadArg(1, 0), LoadArg(1, 1), LoadArg(1, 2), LoadArg(1, -1),
   Instr(1, "LoadArg", <<>>, VReg), Instr(1, "LoadArg", <<VReg>>, VReg),
   Instr(3, "Move", <<Imm(6)>>, VReg)}

LoadArgCallees ==
  {Linear2(e) : e \in BoundedSeq(ArgInstrs, 2)}
    \cup {FromEdges(<< <<2>>, <<3>>, <<>> >>, << e, m, <<>> >>) :
            e \in BoundedSeq(ArgInstrs, 1), m \in BoundedSeq(ArgInstrs, 1)}

CheckCallees == ShapeCallees \cup LoadArgCallees

InitCheck ==
  /\ caller \in Callers
  /\ call_instr_ = 3
  /\ arguments_ = <<>>
  /\ callee_start_ = -1
  /\ callee_end_ = -1
  /\ \E c \in CheckCallees :
       name_to_function = [n \in Names |-> IF n = "f" THEN SomeFunction(c) ELSE NoFunction]
  /\ result = "none"
  /\ pre = caller
  /\ last = [NoLast EXCEPT !.cache = name_to_function]
  /\ stages = <<>>

\* the state r, what isInlineable returned, leaves
IsInlineableDone(callee, r) ==
  /\ arguments_' = r.args
  /\ last' = [op |-> "isInlineable", callee |-> callee, ok |-> r.ok,
              inputs |-> GetInstr(caller, call_instr_).in,
              args |-> arguments_, cache |-> name_to_function]

\* isInlineable(callee) called on its own, callee being the Function of name
IsInlineable(name) ==
  /\ call_instr_ # 0
  /\ Len(arguments_) <= MaxArguments
  /\ name_to_function[name].has
  /\ IsInlineableDone(name_to_function[name],
                      isInlineable(caller, GetInstr(caller, call_instr_).in,
                                   arguments_, name_to_function[name].fn))
  /\ pre' = caller
  /\ UNCHANGED <<caller, call_instr_, callee_start_, callee_end_, name_to_function,
                 result, stages>>

NextCheck == \E name \in Names : IsInlineable(name)

SpecCheck == InitCheck /\ [][NextCheck]_vars

-----------------------------------------------------------------------------
(* Properties of isInlineable, under SpecCheck *)

\* C7: isInlineable returns false for every callee that violates a
\* structural condition (no block; not exactly one block without
\* predecessors; not exactly one without successors; a return that is not
\* last, or whose block has not exactly one successor, the exit block; an
\* exit block with an instruction): what it accepts satisfies them all.
C7_StructureViolationsRejected ==
  (last.op = "isInlineable" /\ last.ok) => StructureOk(Callee)

\* C7 witness: a three-block callee with one entry and one exit was turned
\* down for a return that is not the last instruction of its block.
C7_Witness ==
  /\ last.op = "isInlineable"
  /\ ~last.ok
  /\ Len(Callee) = 3
  /\ Cardinality(NoPreds(Callee)) = 1
  /\ Cardinality(NoSuccs(Callee)) = 1
  /\ \E b \in 1..3 : Len(Callee[b].instrs) = 2 /\ isReturn(Callee[b].instrs[1])

\* C8: for a call with n actual arguments after the callee address,
\* isInlineable returns false when a parameter-load follows another kind of
\* instruction, has no input, has an input that is not an immediate, or has
\* an index that is not below n: what it accepts indexes existing arguments.
C8_LoadArgViolationsRejected ==
  (last.op = "isInlineable" /\ last.ok /\ Len(last.inputs) >= 1) =>
    LoadArgsOk(AllInstrs(Callee), Len(last.inputs) - 1)

\* C8 witness: a callee of sound structure was turned down, on a call whose
\* arguments are all admissible, for a parameter-load whose index is n.
C8_Witness ==
  /\ last.op = "isInlineable"
  /\ ~last.ok
  /\ StructureOk(Callee)
  /\ Len(last.inputs) >= 2
  /\ \A k \in 1..Len(ActualArgs) : ActualArgs[k].k \in {"imm", "linked"}
  /\ \E i \in Range(AllInstrs(Callee)) :
       isLoadArg(i) /\ i.in # <<>> /\ i.in[1] = Imm(Len(ActualArgs))

\* C9 as claimed: a call of isInlineable changes nothing, arguments_ included.
C9_IsInlineableChangesNothing ==
  last.op = "isInlineable" =>
    /\ caller = pre
    /\ name_to_function = last.cache
    /\ arguments_ = last.args

\* the actual arguments checkArguments admits before the first it turns down
RECURSIVE AdmittedPrefix(_)
AdmittedPrefix(actual) ==
  IF actual = <<>> THEN <<>>
  ELSE IF Type(caller, Head(actual)) \in {"imm", "vreg"}
    THEN <<Head(actual)>> \o AdmittedPrefix(Tail(actual))
  ELSE <<>>

\* C9 amended: isInlineable changes neither the caller, nor the callee and
\* the map, nor the call instruction, and a second call on the same callee
\* gives the same verdict; but it appends to arguments_, each time it gets
\* past the entry/exit/return check, the arguments admitted before the first
\* inadmissible one.
C9_IsInlineableOnlyAppendsArguments ==
  [][last'.op = "isInlineable" =>
       /\ caller' = caller
       /\ name_to_function' = name_to_function
       /\ call_instr_' = call_instr_
       /\ arguments_' =
            arguments_ \o (IF checkEntryExitReturn(last'.callee.fn)
                             THEN AdmittedPrefix(ActualArgs') ELSE <<>>)
       /\ (last.op = "isInlineable" /\ last.callee = last'.callee) => last'.ok = last.ok]_vars

\* C9 witness: a second call of isInlineable appended the arguments again.
C9_Witness ==
  /\ last.op = "isInlineable"
  /\ last.args # <<>>
  /\ Len(arguments_) = 2 * Len(last.args)
  /\ last.ok

====
